---------------------------- MODULE Spec2Model ----------------------------
(***************************************************************************)
(* Closest-approach processing of flight-wallpaper.                        *)
(*                                                                         *)
(* The repository holds two FlightProcessor classes:                       *)
(*   - src/process_data.py, the one main.py and run_test_data.py import;   *)
(*   - src/data.py, a variant built on geopy (filter, group, reduce, sort).*)
(* Both are modelled.  A position report is a Python dict, modelled as a   *)
(* function from the keys it has to their values; an absent key is a key   *)
(* outside DOMAIN, an explicit None is the value None.                     *)
(*                                                                         *)
(* Coordinates are written as the decimal literals of the reports          *)
(* ("53.20"); distances are in millionths of a mile.                       *)
(***************************************************************************)
EXTENDS Integers, Sequences, FiniteSets, TLC

VARIABLES
    container,      \* the Python type of what is handed to process_flights
    flights,        \* the list handed to process_flights (the live dicts)
    given,          \* the same list as it was when the call was made
    radius_miles,   \* FlightProcessor.radius_miles, millionths of a mile
    impl,           \* which process_flights was called: "none" before the call
    result,         \* the list the call built
    error,          \* "none", or the exception the call ended in
    repeated,       \* the later calls on this processor: input and result
    stats,          \* what get_statistics returned, None before the call
    home_lat,       \* the latitude of home, in degrees
    radius_degrees, \* what miles_to_degrees returned, None before the call
    script,         \* the script that printed the statistics: "none" before
    printed,        \* the lines of statistics printed
    wallpaper,      \* what create_wallpaper drew, None before the call
    fetcher,        \* the class of the fetcher: "none" when nothing is fetched
    current_time,   \* get_yesterday_flights: the time of the next chunk
    enrichment      \* whether enrich_with_routes was called, and the routes
                    \* its lookups gave

vars == <<container, flights, given, radius_miles, impl, result, error, repeated, stats,
          home_lat, radius_degrees, script, printed, wallpaper, fetcher,
          current_time, enrichment>>

\* the state of the processing, which the conversion of the radius leaves alone
processing == <<container, flights, given, impl, result, error, repeated, stats>>

\* the state of the conversion, which the processing leaves alone
conversion == <<home_lat, radius_degrees>>

\* the state of the printing and the rendering, which both leave alone
rendering == <<script, printed, wallpaper>>

\* the state of the fetching
fetching == <<fetcher, current_time>>

---------------------------------------------------------------------------
(* Bounds of the model *)

MaxFlights == 3

MaxApproaches == 3

\* the calls of process_flights after the first one
MaxRepeats == 2

\* the largest search radius, in half miles
MaxHalfMiles == 20

\* the chunks of the day that get_yesterday_flights requests
MaxChunks == 3

---------------------------------------------------------------------------
(* Python values *)

None == "None"

\* None where a dict is expected (a report, an approach record)
NoneDict == [None |-> "None"]

\* None where a number is expected; a number x is then <<x>>
NoneNumber == <<>>

\* float('inf'), above every distance of the model
Inf == 1000000000

\* dict.get(key): the value, None when the key is absent
Get(d, key) == IF key \in DOMAIN d THEN d[key] ELSE None

\* truth value of an identifier: None and the empty string are falsy
Truthy(v) == v # None /\ v # ""

Min(S) == CHOOSE x \in S : \A y \in S : x <= y

Max(S) == CHOOSE x \in S : \A y \in S : x >= y

---------------------------------------------------------------------------
(* The inputs: reports around the home of run_test_data.py,                *)
(* (53.192780, -0.469602)                                                  *)

Longitude == "-0.47"

\* home of run_test_data.py, latitude 53.192780
HomeLatitude == "53.192780"

\* the radii a processor is configured with: 1.0 and 5.0 miles
Radii == {1000000, 5000000}

\* process_data.haversine_distance(home, (lat, lon)) of the model's points
haversine_distance(lat, lon) ==
    CASE lat = "53.20" /\ lon = "-0.47" -> 499157
      [] lat = "53.23" /\ lon = "-0.47" -> 2571865
      [] lat = "53.50" /\ lon = "-0.47" -> 21228166

\* geopy's geodesic(home, point).miles of the model's points (WGS-84)
geodesic_miles(lat, lon) ==
    CASE lat = "53.20" /\ lon = "-0.47" -> 499554
      [] lat = "53.23" /\ lon = "-0.47" -> 2573911
      [] lat = "53.50" /\ lon = "-0.47" -> 21245537

\* well-formed reports of two aircraft, 0.5, 2.6 and 21 miles from home, and
\* one report that differs from another in nothing but the callsign
Reports ==
    [icao24 : {"abc123", "def456"},
     callsign : {"BAW123"},
     latitude : {"53.20", "53.23", "53.50"},
     longitude : {Longitude},
     timestamp : {100, 200}]
    \cup
    {[icao24 |-> "abc123", callsign |-> "EZY45", latitude |-> "53.20",
      longitude |-> Longitude, timestamp |-> 100]}

\* reports with altitude, heading and velocity, as the fetchers build them:
\* of each aircraft two at 0.5 miles and one at 2.6 miles that differ in
\* every other field, and one at 21 miles without callsign, altitude, heading
\* and velocity
KinematicReports ==
    [icao24 : {"abc123", "def456"}, callsign : {"BAW123"},
     latitude : {"53.20"}, longitude : {Longitude}, altitude : {"100"},
     heading : {"90"}, velocity : {"200"}, timestamp : {100}]
    \cup
    [icao24 : {"abc123", "def456"}, callsign : {"EZY45"},
     latitude : {"53.23"}, longitude : {Longitude}, altitude : {"200"},
     heading : {"270"}, velocity : {"250"}, timestamp : {200}]
    \cup
    [icao24 : {"abc123", "def456"}, callsign : {"BAW12"},
     latitude : {"53.20"}, longitude : {Longitude}, altitude : {"300"},
     heading : {"180"}, velocity : {"300"}, timestamp : {300}]
    \cup
    [icao24 : {"abc123", "def456"}, callsign : {None},
     latitude : {"53.50"}, longitude : {Longitude}, altitude : {None},
     heading : {None}, velocity : {None}, timestamp : {400}]

\* reports of the runs that print and render: with callsign and altitude or
\* without both, 0.5 and 21 miles from home
RenderReports ==
    [icao24 : {"abc123", "def456"},
     callsign : {"RYR9630 "},
     latitude : {"53.20", "53.50"},
     longitude : {Longitude},
     altitude : {"100"},
     timestamp : {100}]
    \cup
    [icao24 : {"abc123", "def456"},
     callsign : {None},
     latitude : {"53.20", "53.50"},
     longitude : {Longitude},
     altitude : {None},
     timestamp : {100}]

\* reports of the runs that look up routes: within the radius, with a
\* callsign and an altitude or without both
EnrichReports ==
    [icao24 : {"abc123", "def456"},
     callsign : {"RYR9630 "},
     latitude : {"53.20"},
     longitude : {Longitude},
     altitude : {"100"},
     timestamp : {100}]
    \cup
    [icao24 : {"abc123", "def456"},
     callsign : {None},
     latitude : {"53.20"},
     longitude : {Longitude},
     altitude : {None},
     timestamp : {100}]

\* approach records as _find_closest_approach builds them, with and without
\* an altitude (in metres)
Approaches ==
    [icao24 : {"abc123"},
     callsign : {"BAW123"},
     latitude : {"53.20"},
     longitude : {Longitude},
     altitude : {None, "100", "300"},
     heading : {None},
     velocity : {None},
     timestamp : {100},
     distance : {499157, 2571865}]

\* the reports of the runs that call process_flights more than once
RepeatReports ==
    [icao24 : {"abc123", "def456"},
     callsign : {"BAW123"},
     latitude : {"53.20", "53.23"},
     longitude : {Longitude},
     timestamp : {100, 200}]

\* a value that is not a dict, a str or an int, is written as a record with
\* the name of its Python type as its one field
IsDict(item) == DOMAIN item \cap {"str", "int"} = {}

\* what the caller may hand over in place of a list of dicts: a dict (such
\* as the JSON object {"states": [...]}), a str, or None
Containers == {"list", "dict", "str", "NoneType"}

\* what iterating over the container yields: the elements of a list (dicts,
\* strs or ints), the keys of a dict, the characters of a str
Items(c) ==
    CASE c = "list" ->
             [icao24 : {"abc123"},
              callsign : {"BAW123"},
              latitude : {"53.20", "53.50"},
              longitude : {Longitude},
              timestamp : {100}]
             \cup {[str |-> "abc123"], [int |-> 1]}
      [] c = "dict" -> {[str |-> "states"], [str |-> "time"]}
      [] c = "str" -> {[str |-> "a"], [str |-> "b"]}
      [] OTHER -> {}

\* reports of which some lack a field: the latitude, the longitude or the
\* callsign
MalformedReports ==
    [icao24 : {"abc123", "def456"},
     callsign : {"BAW123"},
     latitude : {"53.20", "53.50"},
     longitude : {Longitude},
     timestamp : {100}]
    \cup
    [icao24 : {"abc123", "def456"},
     callsign : {"BAW123"},
     longitude : {Longitude},
     timestamp : {100}]
    \cup
    [icao24 : {"abc123", "def456"},
     callsign : {"BAW123"},
     latitude : {"53.20"},
     timestamp : {100}]
    \cup
    [icao24 : {"abc123", "def456"},
     latitude : {"53.20"},
     longitude : {Longitude},
     timestamp : {100}]

\* reports of which some lack the identifier or a coordinate
NoisyReports ==
    [icao24 : {"abc123", "def456", "", None},
     latitude : {"53.20", "53.50", None},
     longitude : {Longitude},
     timestamp : {100}]
    \cup
    [icao24 : {"abc123", "def456", "", None},
     latitude : {"53.20"},
     longitude : {None},
     timestamp : {100}]
    \cup
    [latitude : {"53.20", "53.50", None},
     longitude : {Longitude},
     timestamp : {100}]

---------------------------------------------------------------------------
(* src/process_data.py *)

\* the keys of aircraft_flights in insertion order (lines 44-52)
RECURSIVE aircraft_keys(_, _)
aircraft_keys(fs, seen) ==
    IF fs = <<>> THEN <<>>
    ELSE LET icao24 == Get(Head(fs), "icao24")
         IN  IF ~Truthy(icao24) \/ icao24 \in seen
             THEN aircraft_keys(Tail(fs), seen)
             ELSE <<icao24>> \o aircraft_keys(Tail(fs), seen \cup {icao24})

\* aircraft_flights[icao24] (lines 50-52)
aircraft_flights(fs, icao24) ==
    SelectSeq(fs, LAMBDA f : Get(f, "icao24") = icao24)

\* closest_scan without the radius bound of line 82
RECURSIVE closest_scan_any_distance(_, _, _, _)
closest_scan_any_distance(states, radius, closest_state, closest_distance) ==
    IF states = <<>>
    THEN [closest_state |-> closest_state, closest_distance |-> closest_distance]
    ELSE LET state == Head(states)
             lat == Get(state, "latitude")
             lon == Get(state, "longitude")
         IN  IF lat = None \/ lon = None
             THEN closest_scan_any_distance(Tail(states), radius, closest_state,
                                            closest_distance)
             ELSE LET distance == haversine_distance(lat, lon)
                  IN  IF distance < closest_distance
                      THEN closest_scan_any_distance(Tail(states), radius, state,
                                                     distance)
                      ELSE closest_scan_any_distance(Tail(states), radius,
                                                     closest_state,
                                                     closest_distance)

\* closest_scan with <= for < in line 82: the last of equal distances wins
RECURSIVE closest_scan_last_wins(_, _, _, _)
closest_scan_last_wins(states, radius, closest_state, closest_distance) ==
    IF states = <<>>
    THEN [closest_state |-> closest_state, closest_distance |-> closest_distance]
    ELSE LET state == Head(states)
             lat == Get(state, "latitude")
             lon == Get(state, "longitude")
         IN  IF lat = None \/ lon = None
             THEN closest_scan_last_wins(Tail(states), radius, closest_state,
                                         closest_distance)
             ELSE LET distance == haversine_distance(lat, lon)
                  IN  IF distance <= closest_distance /\ distance <= radius
                      THEN closest_scan_last_wins(Tail(states), radius, state,
                                                  distance)
                      ELSE closest_scan_last_wins(Tail(states), radius,
                                                  closest_state, closest_distance)

\* closest_scan without the skip of lines 77-78, a report without a
\* coordinate counted as being at home
RECURSIVE closest_scan_no_skip(_, _, _, _)
closest_scan_no_skip(states, radius, closest_state, closest_distance) ==
    IF states = <<>>
    THEN [closest_state |-> closest_state, closest_distance |-> closest_distance]
    ELSE LET state == Head(states)
             lat == Get(state, "latitude")
             lon == Get(state, "longitude")
             distance == IF lat = None \/ lon = None
                         THEN 0 ELSE haversine_distance(lat, lon)
         IN  IF distance < closest_distance /\ distance <= radius
             THEN closest_scan_no_skip(Tail(states), radius, state, distance)
             ELSE closest_scan_no_skip(Tail(states), radius, closest_state,
                                       closest_distance)

\* the loop of _find_closest_approach (lines 70-84): the running minimum
RECURSIVE closest_scan(_, _, _, _)
closest_scan(states, radius, closest_state, closest_distance) ==
    IF states = <<>>
    THEN [closest_state |-> closest_state, closest_distance |-> closest_distance]
    ELSE LET state == Head(states)
             lat == Get(state, "latitude")
             lon == Get(state, "longitude")
         IN  IF lat = None \/ lon = None
             THEN closest_scan(Tail(states), radius, closest_state, closest_distance)
             ELSE LET distance == haversine_distance(lat, lon)
                  IN  IF distance < closest_distance /\ distance <= radius
                      THEN closest_scan(Tail(states), radius, state, distance)
                      ELSE closest_scan(Tail(states), radius, closest_state,
                                        closest_distance)

\* _find_closest_approach taking the altitude from the first report of the
\* aircraft (states[0] for closest_state in line 94)
find_closest_approach_pd_first_altitude(states, radius) ==
    LET best == closest_scan(states, radius, NoneDict, Inf)
        closest_state == best.closest_state
    IN  IF closest_state = NoneDict
        THEN NoneDict
        ELSE [icao24 |-> closest_state["icao24"],
              callsign |-> Get(closest_state, "callsign"),
              latitude |-> closest_state["latitude"],
              longitude |-> closest_state["longitude"],
              altitude |-> Get(states[1], "altitude"),
              heading |-> Get(closest_state, "heading"),
              velocity |-> Get(closest_state, "velocity"),
              timestamp |-> Get(closest_state, "timestamp"),
              distance |-> best.closest_distance]

\* _find_closest_approach (lines 68-99): None, or the record of the winner
find_closest_approach_pd(states, radius) ==
    LET best == closest_scan(states, radius, NoneDict, Inf)
        closest_state == best.closest_state
    IN  IF closest_state = NoneDict
        THEN NoneDict
        ELSE [icao24 |-> closest_state["icao24"],
              callsign |-> Get(closest_state, "callsign"),
              latitude |-> closest_state["latitude"],
              longitude |-> closest_state["longitude"],
              altitude |-> Get(closest_state, "altitude"),
              heading |-> Get(closest_state, "heading"),
              velocity |-> Get(closest_state, "velocity"),
              timestamp |-> Get(closest_state, "timestamp"),
              distance |-> best.closest_distance]

\* the loop of process_flights over aircraft_flights.items() (lines 59-63)
RECURSIVE collect_approaches(_, _, _)
collect_approaches(keys, fs, radius) ==
    IF keys = <<>> THEN <<>>
    ELSE LET closest == find_closest_approach_pd(aircraft_flights(fs, Head(keys)),
                                                 radius)
             rest == collect_approaches(Tail(keys), fs, radius)
         IN  IF closest = NoneDict THEN rest ELSE <<closest>> \o rest

\* FlightProcessor.process_flights (lines 38-66)
process_flights(fs, radius) ==
    collect_approaches(aircraft_keys(fs, {}), fs, radius)

\* the number an altitude literal of the model denotes, in metres
Number(literal) ==
    CASE literal = "100" -> 100
      [] literal = "300" -> 300

\* altitude * 3.28084 (line 120), in hundred-thousandths of a foot
feet(altitude) == Number(altitude) * 328084

\* sum(list)
RECURSIVE sum(_)
sum(s) == IF s = <<>> THEN 0 ELSE Head(s) + sum(Tail(s))

\* sum(list) / len(list), as the fraction it is
mean(s) == [num |-> sum(s), den |-> Len(s)]

\* get_statistics that takes 0 for the aggregates of an empty list
get_statistics_zero_defaults(approaches) ==
    IF approaches = <<>>
    THEN [total_aircraft |-> 0,
          closest_distance |-> <<0>>,
          furthest_distance |-> <<0>>,
          average_distance |-> <<[num |-> 0, den |-> 1]>>,
          min_altitude |-> <<0>>,
          max_altitude |-> <<0>>,
          average_altitude |-> <<[num |-> 0, den |-> 1]>>]
    ELSE LET distances == [k \in 1..Len(approaches) |-> approaches[k]["distance"]]
             present == SelectSeq(approaches, LAMBDA a : a["altitude"] # None)
             altitudes == [k \in 1..Len(present) |-> feet(present[k]["altitude"])]
         IN  [total_aircraft |-> Len(approaches),
              closest_distance |-> <<Min({distances[k] : k \in DOMAIN distances})>>,
              furthest_distance |-> <<Max({distances[k] : k \in DOMAIN distances})>>,
              average_distance |-> <<mean(distances)>>,
              min_altitude |->
                  IF altitudes # <<>>
                  THEN <<Min({altitudes[k] : k \in DOMAIN altitudes})>>
                  ELSE NoneNumber,
              max_altitude |->
                  IF altitudes # <<>>
                  THEN <<Max({altitudes[k] : k \in DOMAIN altitudes})>>
                  ELSE NoneNumber,
              average_altitude |->
                  IF altitudes # <<>> THEN <<mean(altitudes)>> ELSE NoneNumber]

\* get_statistics that collects the distances in the loop of lines 117-120,
\* under its altitude test
get_statistics_distances_with_altitude(approaches) ==
    IF approaches = <<>>
    THEN [total_aircraft |-> 0,
          closest_distance |-> NoneNumber,
          furthest_distance |-> NoneNumber,
          average_distance |-> NoneNumber,
          min_altitude |-> NoneNumber,
          max_altitude |-> NoneNumber,
          average_altitude |-> NoneNumber]
    ELSE LET present == SelectSeq(approaches, LAMBDA a : a["altitude"] # None)
             distances == [k \in 1..Len(present) |-> present[k]["distance"]]
             altitudes == [k \in 1..Len(present) |-> feet(present[k]["altitude"])]
         IN  [total_aircraft |-> Len(approaches),
              closest_distance |->
                  IF distances # <<>>
                  THEN <<Min({distances[k] : k \in DOMAIN distances})>>
                  ELSE NoneNumber,
              furthest_distance |->
                  IF distances # <<>>
                  THEN <<Max({distances[k] : k \in DOMAIN distances})>>
                  ELSE NoneNumber,
              average_distance |->
                  IF distances # <<>> THEN <<mean(distances)>> ELSE NoneNumber,
              min_altitude |->
                  IF altitudes # <<>>
                  THEN <<Min({altitudes[k] : k \in DOMAIN altitudes})>>
                  ELSE NoneNumber,
              max_altitude |->
                  IF altitudes # <<>>
                  THEN <<Max({altitudes[k] : k \in DOMAIN altitudes})>>
                  ELSE NoneNumber,
              average_altitude |->
                  IF altitudes # <<>> THEN <<mean(altitudes)>> ELSE NoneNumber]

\* get_statistics that counts a missing altitude as 0 feet
get_statistics_missing_altitude_zero(approaches) ==
    IF approaches = <<>>
    THEN [total_aircraft |-> 0,
          closest_distance |-> NoneNumber,
          furthest_distance |-> NoneNumber,
          average_distance |-> NoneNumber,
          min_altitude |-> NoneNumber,
          max_altitude |-> NoneNumber,
          average_altitude |-> NoneNumber]
    ELSE LET distances == [k \in 1..Len(approaches) |-> approaches[k]["distance"]]
             altitudes == [k \in 1..Len(approaches) |->
                              IF approaches[k]["altitude"] # None
                              THEN feet(approaches[k]["altitude"]) ELSE 0]
         IN  [total_aircraft |-> Len(approaches),
              closest_distance |-> <<Min({distances[k] : k \in DOMAIN distances})>>,
              furthest_distance |-> <<Max({distances[k] : k \in DOMAIN distances})>>,
              average_distance |-> <<mean(distances)>>,
              min_altitude |-> <<Min({altitudes[k] : k \in DOMAIN altitudes})>>,
              max_altitude |-> <<Max({altitudes[k] : k \in DOMAIN altitudes})>>,
              average_altitude |-> <<mean(altitudes)>>]

\* FlightProcessor.get_statistics (lines 101-138); distances in millionths
\* of a mile, altitudes in hundred-thousandths of a foot, averages as
\* fractions
get_statistics(approaches) ==
    IF approaches = <<>>
    THEN [total_aircraft |-> 0,
          closest_distance |-> NoneNumber,
          furthest_distance |-> NoneNumber,
          average_distance |-> NoneNumber,
          min_altitude |-> NoneNumber,
          max_altitude |-> NoneNumber,
          average_altitude |-> NoneNumber]
    ELSE LET distances == [k \in 1..Len(approaches) |-> approaches[k]["distance"]]
             present == SelectSeq(approaches, LAMBDA a : a["altitude"] # None)
             altitudes == [k \in 1..Len(present) |-> feet(present[k]["altitude"])]
         IN  [total_aircraft |-> Len(approaches),
              closest_distance |-> <<Min({distances[k] : k \in DOMAIN distances})>>,
              furthest_distance |-> <<Max({distances[k] : k \in DOMAIN distances})>>,
              average_distance |-> <<mean(distances)>>,
              min_altitude |->
                  IF altitudes # <<>>
                  THEN <<Min({altitudes[k] : k \in DOMAIN altitudes})>>
                  ELSE NoneNumber,
              max_altitude |->
                  IF altitudes # <<>>
                  THEN <<Max({altitudes[k] : k \in DOMAIN altitudes})>>
                  ELSE NoneNumber,
              average_altitude |->
                  IF altitudes # <<>> THEN <<mean(altitudes)>> ELSE NoneNumber]

\* the subscripts of get_statistics that raise KeyError (lines 114, 118)
get_statistics_raises(approaches) ==
    \E k \in 1..Len(approaches) :
        {"distance", "altitude"} \ DOMAIN approaches[k] # {}

---------------------------------------------------------------------------
(* src/data.py *)

\* a sort that puts an element before the elements of equal key
RECURSIVE sorted_by_unstable(_, _)
sorted_by_unstable(s, field) ==
    IF s = <<>> THEN <<>>
    ELSE LET front == sorted_by_unstable(SubSeq(s, 1, Len(s) - 1), field)
             x == s[Len(s)]
             n == Cardinality({i \in 1..Len(front) : front[i][field] < x[field]})
         IN  SubSeq(front, 1, n) \o <<x>> \o SubSeq(front, n + 1, Len(front))

\* list.sort(key=lambda x: x[field]): a stable sort, ascending
RECURSIVE sorted_by(_, _)
sorted_by(s, field) ==
    IF s = <<>> THEN <<>>
    ELSE LET front == sorted_by(SubSeq(s, 1, Len(s) - 1), field)
             x == s[Len(s)]
             \* x goes behind every element whose key is not above its own
             n == Cardinality({i \in 1..Len(front) : front[i][field] <= x[field]})
         IN  SubSeq(front, 1, n) \o <<x>> \o SubSeq(front, n + 1, Len(front))

\* FlightProcessor.calculate_distance (lines 17-22)
calculate_distance(lat, lon) ==
    IF lat = None \/ lon = None THEN Inf ELSE geodesic_miles(lat, lon)

\* filter_by_radius without the radius test of line 34
RECURSIVE filter_by_radius_keep_all(_, _, _, _)
filter_by_radius_keep_all(fs, i, radius, filtered) ==
    IF i > Len(fs)
    THEN [flights |-> fs, filtered |-> filtered, error |-> "none"]
    ELSE LET flight == fs[i]
         IN  IF ~IsDict(flight)
             THEN [flights |-> fs, filtered |-> filtered, error |-> "TypeError"]
             ELSE IF "latitude" \notin DOMAIN flight
             THEN [flights |-> fs, filtered |-> filtered, error |-> "KeyError"]
             ELSE IF flight["latitude"] # None /\ "longitude" \notin DOMAIN flight
             THEN [flights |-> fs, filtered |-> filtered, error |-> "KeyError"]
             ELSE IF flight["latitude"] = None \/ flight["longitude"] = None
             THEN filter_by_radius_keep_all(fs, i + 1, radius, filtered)
             ELSE LET distance == calculate_distance(flight["latitude"],
                                                     flight["longitude"])
                      annotated == [distance_to_home |-> distance] @@ flight
                  IN  filter_by_radius_keep_all([fs EXCEPT ![i] = annotated],
                                                i + 1, radius,
                                                Append(filtered, annotated))

\* filter_by_radius that passes over a report that carries a
\* distance_to_home already
RECURSIVE filter_by_radius_skip_annotated(_, _, _, _)
filter_by_radius_skip_annotated(fs, i, radius, filtered) ==
    IF i > Len(fs)
    THEN [flights |-> fs, filtered |-> filtered, error |-> "none"]
    ELSE LET flight == fs[i]
         IN  IF ~IsDict(flight)
             THEN [flights |-> fs, filtered |-> filtered, error |-> "TypeError"]
             ELSE IF "latitude" \notin DOMAIN flight
             THEN [flights |-> fs, filtered |-> filtered, error |-> "KeyError"]
             ELSE IF flight["latitude"] # None /\ "longitude" \notin DOMAIN flight
             THEN [flights |-> fs, filtered |-> filtered, error |-> "KeyError"]
             ELSE IF \/ flight["latitude"] = None
                     \/ flight["longitude"] = None
                     \/ "distance_to_home" \in DOMAIN flight
             THEN filter_by_radius_skip_annotated(fs, i + 1, radius, filtered)
             ELSE LET distance == calculate_distance(flight["latitude"],
                                                     flight["longitude"])
                      annotated == [distance_to_home |-> distance] @@ flight
                  IN  IF distance <= radius
                      THEN filter_by_radius_skip_annotated(
                               [fs EXCEPT ![i] = annotated], i + 1, radius,
                               Append(filtered, annotated))
                      ELSE filter_by_radius_skip_annotated(fs, i + 1, radius,
                                                           filtered)

\* FlightProcessor.filter_by_radius (lines 24-39), from report i on:
\* fs is the caller's list, whose dicts the loop writes to
RECURSIVE filter_by_radius(_, _, _, _)
filter_by_radius(fs, i, radius, filtered) ==
    IF i > Len(fs)
    THEN [flights |-> fs, filtered |-> filtered, error |-> "none"]
    ELSE LET flight == fs[i]
         IN  IF ~IsDict(flight)
             THEN [flights |-> fs, filtered |-> filtered, error |-> "TypeError"]
             ELSE IF "latitude" \notin DOMAIN flight
             THEN [flights |-> fs, filtered |-> filtered, error |-> "KeyError"]
             ELSE IF flight["latitude"] # None /\ "longitude" \notin DOMAIN flight
             THEN [flights |-> fs, filtered |-> filtered, error |-> "KeyError"]
             ELSE IF flight["latitude"] = None \/ flight["longitude"] = None
             THEN filter_by_radius(fs, i + 1, radius, filtered)
             ELSE LET distance == calculate_distance(flight["latitude"],
                                                     flight["longitude"])
                      annotated == [distance_to_home |-> distance] @@ flight
                  IN  IF distance <= radius
                      THEN filter_by_radius([fs EXCEPT ![i] = annotated], i + 1,
                                            radius, Append(filtered, annotated))
                      ELSE filter_by_radius(fs, i + 1, radius, filtered)

\* the keys of grouped in insertion order (lines 43-46)
RECURSIVE grouped_keys(_, _)
grouped_keys(fs, seen) ==
    IF fs = <<>> THEN <<>>
    ELSE LET icao24 == Head(fs)["icao24"]
         IN  IF icao24 \in seen
             THEN grouped_keys(Tail(fs), seen)
             ELSE <<icao24>> \o grouped_keys(Tail(fs), seen \cup {icao24})

\* FlightProcessor.group_by_aircraft (lines 41-51): grouped[icao24],
\* sorted by timestamp
group_by_aircraft(fs, icao24) ==
    sorted_by(SelectSeq(fs, LAMBDA f : f["icao24"] = icao24), "timestamp")

\* max for min in line 58
closest_of_furthest(flight_states) ==
    LET key(x) == IF "distance_to_home" \in DOMAIN x
                  THEN x["distance_to_home"] ELSE Inf
        i == Min({j \in 1..Len(flight_states) :
                    \A k \in 1..Len(flight_states) :
                        key(flight_states[j]) >= key(flight_states[k])})
    IN  flight_states[i]

\* min(flight_states, key=distance_to_home) (line 58): the first minimum
closest_of(flight_states) ==
    LET key(x) == IF "distance_to_home" \in DOMAIN x
                  THEN x["distance_to_home"] ELSE Inf
        i == Min({j \in 1..Len(flight_states) :
                    \A k \in 1..Len(flight_states) :
                        key(flight_states[j]) <= key(flight_states[k])})
    IN  flight_states[i]

\* find_closest_approach counting the distinct timestamps in line 61
find_closest_approach_count_stamps(flight_states) ==
    IF flight_states = <<>>
    THEN NoneDict
    ELSE LET closest == closest_of(flight_states)
             stamps == {flight_states[j]["timestamp"] : j \in 1..Len(flight_states)}
         IN  [num_observations |-> Cardinality(stamps),
              first_seen |-> Min(stamps),
              last_seen |-> Max(stamps)] @@ closest

\* find_closest_approach taking first_seen from the closest report in line 62
find_closest_approach_seen_at_closest(flight_states) ==
    IF flight_states = <<>>
    THEN NoneDict
    ELSE LET closest == closest_of(flight_states)
             stamps == {flight_states[j]["timestamp"] : j \in 1..Len(flight_states)}
         IN  [num_observations |-> Len(flight_states),
              first_seen |-> closest["timestamp"],
              last_seen |-> Max(stamps)] @@ closest

\* FlightProcessor.find_closest_approach (lines 53-65)
find_closest_approach(flight_states) ==
    IF flight_states = <<>>
    THEN NoneDict
    ELSE LET closest == closest_of(flight_states)
             stamps == {flight_states[j]["timestamp"] : j \in 1..Len(flight_states)}
         IN  [num_observations |-> Len(flight_states),
              first_seen |-> Min(stamps),
              last_seen |-> Max(stamps)] @@ closest

\* the loop of process_flights over grouped.items() (lines 80-84)
RECURSIVE collect_closest(_, _)
collect_closest(keys, within_radius) ==
    IF keys = <<>> THEN <<>>
    ELSE LET closest == find_closest_approach(
                            group_by_aircraft(within_radius, Head(keys)))
             rest == collect_closest(Tail(keys), within_radius)
         IN  IF closest = NoneDict THEN rest ELSE <<closest>> \o rest

\* FlightProcessor.process_flights of data.py (lines 67-88): the caller's
\* list after the call, closest_approaches after line 86, and the exception
data_process_flights(fs, radius) ==
    LET f == filter_by_radius(fs, 1, radius, <<>>)
        within_radius == f.filtered
    IN  IF f.error # "none"
        THEN [flights |-> f.flights, closest_approaches |-> <<>>,
              error |-> f.error]
        ELSE IF within_radius = <<>>
        THEN [flights |-> f.flights, closest_approaches |-> <<>>,
              error |-> "none"]
        ELSE IF \E j \in 1..Len(within_radius) :
                   \/ "icao24" \notin DOMAIN within_radius[j]
                   \/ "timestamp" \notin DOMAIN within_radius[j]
        THEN [flights |-> f.flights, closest_approaches |-> <<>>,
              error |-> "KeyError"]
        ELSE [flights |-> f.flights,
              closest_approaches |->
                  sorted_by(collect_closest(grouped_keys(within_radius, {}),
                                            within_radius),
                            "distance_to_home"),
              error |-> "none"]

---------------------------------------------------------------------------
(* Python floats: IEEE 754 binary64, round to nearest, ties to even.
   A positive float is sig * 2^exp with 2^52 <= sig < 2^53; sig is held in
   three limbs of 18 bits, the most significant first. *)

Limb == 262144

\* 2^52 and 2^53 in the first limb
Normal == 65536

Overflown == 131072

\* a < b for two numbers of as many limbs
RECURSIVE wide_less(_, _)
wide_less(a, b) ==
    IF a = <<>> THEN FALSE
    ELSE IF Head(a) # Head(b) THEN Head(a) < Head(b)
    ELSE wide_less(Tail(a), Tail(b))

\* a - b - borrow, for a >= b + borrow
RECURSIVE wide_minus(_, _, _)
wide_minus(a, b, borrow) ==
    IF a = <<>> THEN <<>>
    ELSE LET n == Len(a)
             d == a[n] - b[n] - borrow
         IN  wide_minus(SubSeq(a, 1, n - 1), SubSeq(b, 1, n - 1),
                        IF d < 0 THEN 1 ELSE 0)
             \o <<IF d < 0 THEN d + Limb ELSE d>>

\* a * k + carry, for a small k
RECURSIVE wide_times(_, _, _)
wide_times(a, k, carry) ==
    IF a = <<>> THEN <<>>
    ELSE LET n == Len(a)
             p == a[n] * k + carry
         IN  IF n = 1 THEN <<p>>
             ELSE wide_times(SubSeq(a, 1, n - 1), k, p \div Limb)
                  \o <<p % Limb>>

\* (rem * Limb^Len(a) + a) \div 2
RECURSIVE wide_half(_, _)
wide_half(a, rem) ==
    IF a = <<>> THEN <<>>
    ELSE LET v == rem * Limb + Head(a)
         IN  <<v \div 2>> \o wide_half(Tail(a), v % 2)

odd(a) == a[Len(a)] % 2 = 1

\* the float of sig * 2^exp for a sig below 2^53
RECURSIVE normalised(_)
normalised(x) ==
    IF x.sig[1] >= Normal THEN x
    ELSE normalised([exp |-> x.exp - 1, sig |-> wide_times(x.sig, 2, 0)])

\* the nearest float to (sig + (guard + sticky/2)/2) * 2^exp, for any sig
RECURSIVE rounded(_, _, _)
rounded(x, guard, sticky) ==
    IF wide_less(<<0, Overflown - 1, Limb - 1, Limb - 1>>, x.sig)
    THEN rounded([exp |-> x.exp + 1, sig |-> wide_half(x.sig, 0)],
                 odd(x.sig), sticky \/ guard)
    ELSE IF guard /\ (sticky \/ odd(x.sig))
    THEN rounded([exp |-> x.exp, sig |-> wide_times(x.sig, 1, 1)],
                 FALSE, FALSE)
    ELSE [exp |-> x.exp, sig |-> Tail(x.sig)]

\* x * k for a float x and a float k that is a small whole number (69.0)
float_times(x, k) ==
    rounded([exp |-> x.exp, sig |-> wide_times(<<0>> \o x.sig, k, 0)],
            FALSE, FALSE)

\* the 53 leading bits of the quotient r / m, for m <= r < 2m, and what is
\* left of r: one bit at a time, until q has its 53 bits
RECURSIVE quotient_bits(_, _, _)
quotient_bits(r, m, q) ==
    LET bit == ~wide_less(r, m)
        left == IF bit THEN wide_minus(r, m, 0) ELSE r
        bits == wide_times(q, 2, IF bit THEN 1 ELSE 0)
    IN  IF bits[1] >= Normal THEN [q |-> bits, r |-> left]
        ELSE quotient_bits(wide_times(left, 2, 0), m, bits)

\* a / b for two floats
float_div(a, b) ==
    LET small == wide_less(a.sig, b.sig)
        d == quotient_bits(IF small THEN wide_times(a.sig, 2, 0) ELSE a.sig,
                           b.sig, <<0, 0, 0>>)
        twice == wide_times(d.r, 2, 0)
    IN  rounded([exp |-> a.exp - b.exp - (IF small THEN 53 ELSE 52),
                 sig |-> <<0>> \o d.q],
                ~wide_less(twice, b.sig),
                wide_less(b.sig, twice))

\* a < b for two floats
float_less(a, b) ==
    a.exp < b.exp \/ (a.exp = b.exp /\ wide_less(a.sig, b.sig))

\* float(n) for a whole number n >= 1
float(n) == normalised([exp |-> 0, sig |-> <<0, 0, n>>])

---------------------------------------------------------------------------
(* process_data.py: miles_to_degrees (the same code is _miles_to_degrees of
   generate_image.py) *)

\* the latitudes of home the conversion is made at
HomeLatitudes == {"0", HomeLatitude, "-45.5", "60", "89"}

\* the search radii of the configuration: whole numbers of half miles, in
\* millionths of a mile
SearchRadii == {500000 * n : n \in 1..MaxHalfMiles}

\* the float of a radius given in millionths of a mile
miles_float(radius) ==
    normalised([exp |-> -1, sig |-> <<0, 0, radius \div 500000>>])

\* math.cos(math.radians(latitude)) (line 26), as CPython computes it
cos_radians(latitude) ==
    CASE latitude = "0"         -> [exp |-> -52, sig |-> <<65536, 0, 0>>]
      [] latitude = "53.192780" -> [exp |-> -53, sig |-> <<78528, 116905, 51176>>]
      [] latitude = "-45.5"     -> [exp |-> -53, sig |-> <<91869, 151805, 13170>>]
      [] latitude = "60"        -> [exp |-> -53, sig |-> <<65536, 0, 1>>]
      [] latitude = "89"        -> [exp |-> -58, sig |-> <<73200, 183010, 122167>>]

\* line 25
lat_degrees(miles) == float_div(miles, float(69))

\* line 26
lon_degrees(miles, latitude) ==
    float_div(miles, float_times(cos_radians(latitude), 69))

\* min for max in line 27
miles_to_degrees_min(miles, latitude) ==
    IF float_less(lat_degrees(miles), lon_degrees(miles, latitude))
    THEN lat_degrees(miles)
    ELSE lon_degrees(miles, latitude)

\* miles_to_degrees (lines 23-27)
miles_to_degrees(miles, latitude) ==
    IF float_less(lat_degrees(miles), lon_degrees(miles, latitude))
    THEN lon_degrees(miles, latitude)
    ELSE lat_degrees(miles)

---------------------------------------------------------------------------
(* main.py and run_test_data.py: the printing of the statistics *)

\* an f-string field {value:.2f} or {value:,.0f}: None has no such format
formatted(label, format, value) ==
    [label |-> label, format |-> format, value |-> value]

\* main.py lines 109-116: the lines printed
print_statistics(st) ==
    <<formatted("Total aircraft", "", <<st["total_aircraft"]>>)>>
    \o (IF st["total_aircraft"] > 0
        THEN <<formatted("Closest approach", ".2f", st["closest_distance"]),
               formatted("Furthest", ".2f", st["furthest_distance"]),
               formatted("Average distance", ".2f", st["average_distance"])>>
             \o (IF /\ st["average_altitude"] # NoneNumber
                     /\ st["average_altitude"][1].num # 0
                 THEN <<formatted("Altitude range min", ",.0f",
                                  st["min_altitude"]),
                        formatted("Altitude range max", ",.0f",
                                  st["max_altitude"]),
                        formatted("Average altitude", ",.0f",
                                  st["average_altitude"])>>
                 ELSE <<>>)
        ELSE <<>>)

\* run_test_data.py lines 30-32: the lines printed
print_test_statistics(st) ==
    <<formatted("Found", "", <<st["total_aircraft"]>>),
      formatted("Closest", ".2f", st["closest_distance"]),
      formatted("Avg altitude", ",.0f", st["average_altitude"])>>

\* the lines up to the first whose value has no such format, and the
\* TypeError that one raises
RECURSIVE print_lines(_)
print_lines(lines) ==
    IF lines = <<>> THEN [printed |-> <<>>, error |-> "none"]
    ELSE IF Head(lines).value = NoneNumber
    THEN [printed |-> <<>>, error |-> "TypeError"]
    ELSE LET rest == print_lines(Tail(lines))
         IN  [printed |-> <<Head(lines)>> \o rest.printed,
              error |-> rest.error]

---------------------------------------------------------------------------
(* generate_image.py: WallpaperGenerator *)

\* d.get(key, default)
GetOr(d, key, default) == IF key \in DOMAIN d THEN d[key] ELSE default

\* str.strip() on the strings of the model: callsigns come padded with
\* blanks from the fetchers
strip(s) ==
    CASE s = "RYR9630 " -> "RYR9630"
      [] s = " " -> ""
      [] OTHER -> s

\* str.upper()
upper(s) ==
    CASE s = "abc123" -> "ABC123"
      [] s = "def456" -> "DEF456"
      [] OTHER -> s

\* str.isalpha()
isalpha(s) == s \in {"REDARROW"}

\* re.match(r'^([A-Z]{2,3})(\d+.*)$', s): the two groups, or None
re_match(s) ==
    CASE s = "RYR9630" -> <<"RYR", "9630">>
      [] s = "BAW123" -> <<"BAW", "123">>
      [] s = "BAW12" -> <<"BAW", "12">>
      [] s = "EZY45" -> <<"EZY", "45">>
      [] OTHER -> NoneNumber

\* the .strip() of lines 208-210 on a value that is None
format_label_raises(approach) ==
    \/ GetOr(approach, "origin", "") = None
    \/ GetOr(approach, "destination", "") = None
    \/ GetOr(approach, "icao24", "") = None

\* WallpaperGenerator._format_label (lines 205-241): the lines of the
\* label, each the words that a blank joins
format_label(approach) ==
    LET callsign == strip(IF Truthy(Get(approach, "callsign"))
                          THEN approach["callsign"] ELSE "")
        origin == strip(GetOr(approach, "origin", ""))
        destination == strip(GetOr(approach, "destination", ""))
        icao24 == strip(GetOr(approach, "icao24", ""))
        match == re_match(upper(callsign))
        flight_label ==
            IF callsign = ""
            THEN IF icao24 # "" THEN <<upper(icao24)>> ELSE <<"UNKNOWN">>
            ELSE IF isalpha(callsign) THEN <<upper(callsign)>>
            ELSE IF match # NoneNumber THEN <<match[1], match[2]>>
            ELSE <<upper(callsign)>>
    IN  <<flight_label>>
        \o (IF origin # "" /\ destination # ""
            THEN <<<<origin, "->", destination>>>>
            ELSE IF origin # "" THEN <<<<origin, "->", "?">>>>
            ELSE IF destination # "" THEN <<<<"?", "->", destination>>>>
            ELSE <<>>)

\* WallpaperGenerator._get_marker_size (lines 243-259), on whole feet
get_marker_size(approach) ==
    LET altitude == Get(approach, "altitude")
    IN  IF altitude = None THEN 28
        ELSE LET altitude_feet == feet(altitude) \div 100000
             IN  IF altitude_feet < 5000 THEN 32
                 ELSE IF altitude_feet < 15000 THEN 30
                 ELSE IF altitude_feet < 30000 THEN 28
                 ELSE 26

\* WallpaperGenerator._add_text_info (lines 189-203): the statistics text
add_text_info(st) ==
    <<formatted("Total Aircraft", "", <<st["total_aircraft"]>>)>>
    \o (IF st["closest_distance"] # NoneNumber
        THEN <<formatted("Closest", ".2f", st["closest_distance"])>>
        ELSE <<>>)
    \o (IF st["average_altitude"] # NoneNumber
        THEN <<formatted("Avg Altitude", ",.0f", st["average_altitude"])>>
        ELSE <<>>)

\* WallpaperGenerator.create_wallpaper (lines 26-62) with
\* _create_empty_wallpaper and _create_flight_wallpaper: what is drawn, and
\* the exception
create_wallpaper(approaches, st) ==
    IF approaches = <<>>
    THEN [markers |-> <<>>, text |-> <<"No flights detected">>,
          error |-> "none"]
    ELSE LET drawn == SelectSeq(approaches,
                                LAMBDA a : /\ a["latitude"] # None
                                           /\ a["longitude"] # None)
         IN  IF \E k \in 1..Len(drawn) : format_label_raises(drawn[k])
             THEN [markers |-> <<>>, text |-> <<>>, error |-> "AttributeError"]
             ELSE [markers |->
                       [k \in 1..Len(drawn) |->
                           [size |-> get_marker_size(drawn[k]),
                            label |-> format_label(drawn[k])]],
                   text |-> add_text_info(st),
                   error |-> "none"]

---------------------------------------------------------------------------
(* fetch_flights.py: the two fetchers *)

\* the sequences of at most two elements of S
UpToTwo(S) == {<<>>} \cup {<<a>> : a \in S} \cup {<<a, b>> : a, b \in S}

\* begin_time: midnight of yesterday, here the epoch
begin_time == 0

\* chunk_size (lines 45 and 182)
chunk_size(class) == IF class = "FlightRadar24Fetcher" THEN 900 ELSE 600

\* end_time: the end of the day, here after MaxChunks chunks
end_time(class) == begin_time + MaxChunks * chunk_size(class)

\* int(datetime.fromisoformat(text.replace('Z', '+00:00')).timestamp())
\* (line 85)
fromisoformat(text) ==
    CASE text = "1970-01-01T00:00:00Z" -> 0
      [] text = "1970-01-01T00:15:00Z" -> 900

\* the flights of a FlightRadar24 response: hex, position and timestamp; no
\* callsign, alt, gspeed or track
FR24Flights ==
    [hex : {"abc123", "def456"},
     lat : {"53.20"},
     lon : {Longitude},
     timestamp : {"1970-01-01T00:00:00Z", "1970-01-01T00:15:00Z"}]

\* what a request for the chunk at a time may give: a response with flights
\* (each aircraft once, no position later than the time asked for) or
\* without, no data for the time, an error status, or no response at all
FR24Responses(time) ==
    {[status |-> "200", data |-> d] :
        d \in {f \in UpToTwo(FR24Flights) :
                  /\ \A k \in 1..Len(f) : fromisoformat(f[k].timestamp) <= time
                  /\ \A j, k \in 1..Len(f) : f[j].hex = f[k].hex => j = k}}
    \cup {[status |-> "404"], [status |-> "500"],
          [status |-> "RequestException"]}

\* FlightRadar24Fetcher._parse_fr24_flight (lines 80-100): the keys that the
\* processors and the renderer read
parse_fr24_flight(flight) ==
    [icao24 |-> Get(flight, "hex"),
     callsign |-> Get(flight, "callsign"),
     timestamp |-> fromisoformat(flight["timestamp"]),
     longitude |-> Get(flight, "lon"),
     latitude |-> Get(flight, "lat"),
     altitude |-> None,
     velocity |-> None,
     heading |-> Get(flight, "track")]

\* the body of the loop of get_historical_flights (lines 47-71): what one
\* response appends to flights
fr24_chunk(response) ==
    IF response.status = "200"
    THEN [k \in 1..Len(response.data) |-> parse_fr24_flight(response.data[k])]
    ELSE <<>>

\* the state vectors of an OpenSky response, a list each: icao24, callsign,
\* origin_country, time_position, last_contact, longitude, latitude,
\* baro_altitude, on_ground, velocity, true_track, vertical_rate, sensors,
\* geo_altitude
StateVectors ==
    {<<id, "RYR9630 ", "Ireland", None, None, Longitude, "53.20", "100",
       "False", None, None, None, None, None>> : id \in {"abc123", "def456"}}

\* what a request for a chunk may give
OpenSkyResponses ==
    {[status |-> "200", states |-> d] : d \in UpToTwo(StateVectors)}
    \cup {[status |-> "404"], [status |-> "500"],
          [status |-> "RequestException"]}

\* OpenSkyFetcher._parse_state_vector (lines 219-236): state[0] is the
\* first element
parse_state_vector(state, timestamp) ==
    [icao24 |-> state[1],
     callsign |-> IF Truthy(state[2]) THEN strip(state[2]) ELSE None,
     timestamp |-> timestamp,
     longitude |-> state[6],
     latitude |-> state[7],
     altitude |-> state[8],
     velocity |-> state[10],
     heading |-> state[11]]

\* the body of the loop of OpenSkyFetcher.get_yesterday_flights (lines
\* 186-212): what one response appends to flights
opensky_chunk(response, time) ==
    IF response.status = "200"
    THEN [k \in 1..Len(response.states) |->
             parse_state_vector(response.states[k], time)]
    ELSE <<>>

---------------------------------------------------------------------------
(* enrich_flights.py *)

\* what the lookup of the route of an approach may give: no lookup is made
\* without a callsign; else _fetch_flight_route returns origin and
\* destination, each an airport code or None, or an exception ends the try
Lookups(approach) ==
    IF ~Truthy(Get(approach, "callsign"))
    THEN {[kind |-> "no callsign"]}
    ELSE [kind : {"route"}, origin : {None, "DUB"}, destination : {None, "STN"}]
         \cup {[kind |-> "exception"]}

\* enrich_with_routes without the append of line 48
RECURSIVE enrich_with_routes_drop_failed(_, _)
enrich_with_routes_drop_failed(approaches, lookups) ==
    IF approaches = <<>> THEN <<>>
    ELSE LET approach == Head(approaches)
             route == Head(lookups)
             enriched == enrich_with_routes_drop_failed(Tail(approaches),
                                                        Tail(lookups))
         IN  IF route.kind = "no callsign" THEN <<approach>> \o enriched
             ELSE IF route.kind = "exception" THEN enriched
             ELSE IF Truthy(route.origin) \/ Truthy(route.destination)
             THEN <<[origin |-> route.origin,
                     destination |-> route.destination] @@ approach>>
                  \o enriched
             ELSE <<approach>> \o enriched

\* enrich_with_routes (lines 9-52): the list enriched, given what the
\* lookups gave
RECURSIVE enrich_with_routes(_, _)
enrich_with_routes(approaches, lookups) ==
    IF approaches = <<>> THEN <<>>
    ELSE LET approach == Head(approaches)
             route == Head(lookups)
             enriched == enrich_with_routes(Tail(approaches), Tail(lookups))
         IN  IF route.kind = "no callsign" THEN <<approach>> \o enriched
             ELSE IF route.kind = "exception" THEN <<approach>> \o enriched
             ELSE IF Truthy(route.origin) \/ Truthy(route.destination)
             THEN <<[origin |-> route.origin,
                     destination |-> route.destination] @@ approach>>
                  \o enriched
             ELSE <<approach>> \o enriched

---------------------------------------------------------------------------
(* A call of process_flights on whatever the caller hands over *)

\* process_data.py lines 45-46: the exception the grouping loop raises, if
\* any; None cannot be iterated, a str or an int has no get
process_flights_raises(c, fs) ==
    IF c = "NoneType" THEN "TypeError"
    ELSE IF \E i \in 1..Len(fs) : ~IsDict(fs[i]) THEN "AttributeError"
    ELSE "none"

\* processor.process_flights(flights) on process_data.py: the caller's list
\* after the call, the returned list and the exception
call_process_data(c, fs, radius) ==
    LET raised == process_flights_raises(c, fs)
    IN  [flights |-> fs,
         closest_approaches |->
             IF raised = "none" THEN process_flights(fs, radius) ELSE <<>>,
         error |-> raised]

\* processor.process_flights(flights) on data.py: len(flights) in line 69
\* raises on None, then the pipeline runs
call_data(c, fs, radius) ==
    IF c = "NoneType"
    THEN [flights |-> fs, closest_approaches |-> <<>>, error |-> "TypeError"]
    ELSE data_process_flights(fs, radius)

---------------------------------------------------------------------------
(* The state machine *)

Init ==
    /\ container = "list"
    /\ flights = <<>>
    /\ given = <<>>
    /\ radius_miles \in Radii
    /\ impl = "none"
    /\ result = <<>>
    /\ error = "none"
    /\ repeated = <<>>
    /\ stats = NoneDict
    /\ home_lat = HomeLatitude
    /\ radius_degrees = NoneNumber
    /\ script = "none"
    /\ printed = <<>>
    /\ wallpaper = NoneDict
    /\ fetcher = "none"
    /\ current_time = 0
    /\ enrichment = [called |-> FALSE, lookups |-> <<>>]

\* the caller builds the list of reports
AppendReport(universe) ==
    /\ impl = "none"
    /\ Len(flights) < MaxFlights
    /\ \E r \in universe :
          /\ flights' = Append(flights, r)
          /\ given' = Append(given, r)
    /\ UNCHANGED <<container, radius_miles, impl, result, error, repeated, stats,
                   conversion, rendering, fetching,
                   enrichment>>

AddReport == AppendReport(Reports)

AddNoisyReport == AppendReport(NoisyReports)

\* main.py line 103: processor.process_flights(flights), process_data.py
CallProcessData ==
    /\ impl = "none"
    /\ impl' = "process_data"
    /\ LET r == call_process_data(container, flights, radius_miles)
       IN  /\ result' = r.closest_approaches
           /\ error' = r.error
    /\ UNCHANGED <<container, flights, given, radius_miles, repeated, stats,
                   conversion, rendering, fetching,
                   enrichment>>

\* the same call on the FlightProcessor of data.py
CallData ==
    /\ impl = "none"
    /\ impl' = "data"
    /\ LET r == call_data(container, flights, radius_miles)
       IN  /\ flights' = r.flights
           /\ result' = r.closest_approaches
           /\ error' = r.error
    /\ UNCHANGED <<container, given, radius_miles, repeated, stats, conversion,
                   rendering, fetching,
                   enrichment>>

Next == AddReport \/ CallProcessData \/ CallData

Spec == Init /\ [][Next]_vars

AddRepeatReport == AppendReport(RepeatReports)

AddMalformedReport == AppendReport(MalformedReports)

NextMalformed == AddMalformedReport \/ CallProcessData \/ CallData

SpecMalformed == Init /\ [][NextMalformed]_vars

\* between two calls the caller appends a report to the list
AddLaterReport ==
    /\ impl # "none"
    /\ error = "none"
    /\ Len(repeated) < MaxRepeats
    /\ Len(flights) < MaxFlights
    /\ \E r \in RepeatReports :
          /\ flights' = Append(flights, r)
          /\ given' = Append(given, r)
    /\ UNCHANGED <<container, radius_miles, impl, result, error, repeated, stats,
                   conversion, rendering, fetching,
                   enrichment>>

\* process_flights is called again on the same processor, with the list as
\* it is now
CallAgain ==
    /\ impl # "none"
    /\ error = "none"
    /\ Len(repeated) < MaxRepeats
    /\ LET r == IF impl = "data"
                THEN call_data(container, flights, radius_miles)
                ELSE call_process_data(container, flights, radius_miles)
       IN  /\ flights' = r.flights
           /\ result' = r.closest_approaches
           /\ error' = r.error
           /\ repeated' = Append(repeated, [input |-> given,
                                            result |-> r.closest_approaches,
                                            error |-> r.error])
    /\ UNCHANGED <<container, given, radius_miles, impl, stats, conversion,
                   rendering, fetching,
                   enrichment>>

NextRepeat ==
    AddRepeatReport \/ CallProcessData \/ CallData \/ AddLaterReport \/ CallAgain

SpecRepeat == Init /\ [][NextRepeat]_vars

\* a caller of get_statistics builds a list of approaches
AddApproach ==
    /\ stats = NoneDict
    /\ Len(result) < MaxApproaches
    /\ \E a \in Approaches : result' = Append(result, a)
    /\ UNCHANGED <<container, flights, given, radius_miles, impl, error, repeated,
                   stats, conversion, rendering, fetching,
                   enrichment>>

\* main.py line 104: processor.get_statistics(approaches)
GetStatistics ==
    /\ stats = NoneDict
    /\ error = "none"
    /\ IF get_statistics_raises(result)
       THEN error' = "KeyError" /\ stats' = stats
       ELSE error' = error /\ stats' = get_statistics(result)
    /\ UNCHANGED <<container, flights, given, radius_miles, impl, result,
                   repeated, conversion, rendering, fetching,
                   enrichment>>

NextStats == AddApproach \/ GetStatistics

SpecStats == Init /\ [][NextStats]_vars

NextNoisy == AddNoisyReport \/ CallProcessData \/ CallData

SpecNoisy == Init /\ [][NextNoisy]_vars

\* main.py line 104: the statistics of what process_flights returned
ComputeStatistics == impl # "none" /\ GetStatistics

NextPipeline ==
    AddNoisyReport \/ CallProcessData \/ CallData \/ ComputeStatistics

SpecPipeline == Init /\ [][NextPipeline]_vars

\* the statistics are there and nothing has been printed
Printing ==
    /\ impl # "none"
    /\ stats # NoneDict
    /\ error = "none"
    /\ script = "none"

\* main.py lines 107-117
PrintStatistics ==
    /\ Printing
    /\ script' = "main"
    /\ LET out == print_lines(print_statistics(stats))
       IN  printed' = out.printed /\ error' = out.error
    /\ UNCHANGED <<container, flights, given, radius_miles, impl, result,
                   repeated, stats, conversion, wallpaper, fetching,
                   enrichment>>

\* run_test_data.py lines 30-32
PrintTestStatistics ==
    /\ Printing
    /\ script' = "run_test_data"
    /\ LET out == print_lines(print_test_statistics(stats))
       IN  printed' = out.printed /\ error' = out.error
    /\ UNCHANGED <<container, flights, given, radius_miles, impl, result,
                   repeated, stats, conversion, wallpaper, fetching,
                   enrichment>>

\* main.py line 129, run_test_data.py line 44:
\* generator.create_wallpaper(home_lat, home_lon, approaches, stats, ...)
CreateWallpaper ==
    /\ script # "none"
    /\ error = "none"
    /\ wallpaper = NoneDict
    /\ LET out == create_wallpaper(result, stats)
       IN  IF out.error = "none"
           THEN /\ wallpaper' = [markers |-> out.markers, text |-> out.text]
                /\ error' = error
           ELSE /\ wallpaper' = wallpaper
                /\ error' = out.error
    /\ UNCHANGED <<container, flights, given, radius_miles, impl, result,
                   repeated, stats, conversion, script, printed,
                   fetching, enrichment>>

AddRenderReport == AppendReport(RenderReports)

NextRender ==
    \/ AddRenderReport
    \/ CallProcessData
    \/ CallData
    \/ ComputeStatistics
    \/ PrintStatistics
    \/ PrintTestStatistics
    \/ CreateWallpaper

SpecRender == Init /\ [][NextRender]_vars

\* main.py lines 62-74: the configuration chooses the fetcher
InitFetch ==
    /\ container = "list"
    /\ flights = <<>>
    /\ given = <<>>
    /\ radius_miles \in Radii
    /\ impl = "none"
    /\ result = <<>>
    /\ error = "none"
    /\ repeated = <<>>
    /\ stats = NoneDict
    /\ home_lat = HomeLatitude
    /\ radius_degrees = NoneNumber
    /\ script = "none"
    /\ printed = <<>>
    /\ wallpaper = NoneDict
    /\ fetcher \in {"FlightRadar24Fetcher", "OpenSkyFetcher"}
    /\ current_time = begin_time
    /\ enrichment = [called |-> FALSE, lookups |-> <<>>]

\* one turn of the loop of get_yesterday_flights, with what the request gave
FetchChunk(class, chunk) ==
    /\ fetcher = class
    /\ current_time < end_time(class)
    /\ flights' = flights \o chunk
    /\ given' = given \o chunk
    /\ current_time' = current_time + chunk_size(class)
    /\ UNCHANGED <<container, radius_miles, impl, result, error, repeated, stats,
                   conversion, rendering, fetcher, enrichment>>

\* FlightRadar24Fetcher.get_historical_flights (lines 47-74)
FetchFR24 ==
    \E response \in FR24Responses(current_time) :
        FetchChunk("FlightRadar24Fetcher", fr24_chunk(response))

\* OpenSkyFetcher.get_yesterday_flights (lines 186-215)
FetchOpenSky ==
    \E response \in OpenSkyResponses :
        FetchChunk("OpenSkyFetcher", opensky_chunk(response, current_time))

NextFetch == FetchFR24 \/ FetchOpenSky

SpecFetch == InitFetch /\ [][NextFetch]_vars

\* enrich_with_routes(approaches, api_key) on what process_flights returned
Enrich ==
    /\ impl # "none"
    /\ error = "none"
    /\ stats = NoneDict
    /\ ~enrichment.called
    /\ \E lookups \in [1..Len(result) -> UNION {Lookups(result[k]) :
                                                  k \in 1..Len(result)}] :
          /\ \A k \in 1..Len(result) : lookups[k] \in Lookups(result[k])
          /\ result' = enrich_with_routes(result, lookups)
          /\ enrichment' = [called |-> TRUE, lookups |-> lookups]
    /\ UNCHANGED <<container, flights, given, radius_miles, impl, error,
                   repeated, stats, conversion, rendering, fetching>>

AddEnrichReport == AppendReport(EnrichReports)

NextEnrich ==
    \/ AddEnrichReport
    \/ CallProcessData
    \/ CallData
    \/ Enrich
    \/ ComputeStatistics
    \/ PrintStatistics
    \/ CreateWallpaper

SpecEnrich == Init /\ [][NextEnrich]_vars

AddKinematicReport == AppendReport(KinematicReports)

NextKinematic == AddKinematicReport \/ CallProcessData \/ CallData

SpecKinematic == Init /\ [][NextKinematic]_vars

\* the configuration gives the search radius and the position of home
InitDegrees ==
    /\ container = "list"
    /\ flights = <<>>
    /\ given = <<>>
    /\ radius_miles \in SearchRadii
    /\ impl = "none"
    /\ result = <<>>
    /\ error = "none"
    /\ repeated = <<>>
    /\ stats = NoneDict
    /\ home_lat \in HomeLatitudes
    /\ radius_degrees = NoneNumber
    /\ script = "none"
    /\ printed = <<>>
    /\ wallpaper = NoneDict
    /\ fetcher = "none"
    /\ current_time = 0
    /\ enrichment = [called |-> FALSE, lookups |-> <<>>]

\* main.py line 80: radius_degrees = miles_to_degrees(radius_miles, home_lat)
ConvertRadius ==
    /\ radius_degrees = NoneNumber
    /\ radius_degrees' =
           <<miles_to_degrees(miles_float(radius_miles), home_lat)>>
    /\ UNCHANGED <<processing, radius_miles, home_lat, rendering, fetching,
                   enrichment>>

NextDegrees == ConvertRadius

SpecDegrees == InitDegrees /\ [][NextDegrees]_vars

\* the caller hands over any of the containers
InitInvalid ==
    /\ container \in Containers
    /\ flights = <<>>
    /\ given = <<>>
    /\ radius_miles \in Radii
    /\ impl = "none"
    /\ result = <<>>
    /\ error = "none"
    /\ repeated = <<>>
    /\ stats = NoneDict
    /\ home_lat = HomeLatitude
    /\ radius_degrees = NoneNumber
    /\ script = "none"
    /\ printed = <<>>
    /\ wallpaper = NoneDict
    /\ fetcher = "none"
    /\ current_time = 0
    /\ enrichment = [called |-> FALSE, lookups |-> <<>>]

\* the caller puts one more item into the container
AddItem ==
    /\ impl = "none"
    /\ Len(flights) < MaxFlights
    /\ \E r \in Items(container) :
          /\ flights' = Append(flights, r)
          /\ given' = Append(given, r)
    /\ UNCHANGED <<container, radius_miles, impl, result, error, repeated, stats,
                   conversion, rendering, fetching,
                   enrichment>>

NextInvalid == AddItem \/ CallProcessData \/ CallData

SpecInvalid == InitInvalid /\ [][NextInvalid]_vars

---------------------------------------------------------------------------
(* What the claims speak of, read off the caller's input *)

\* the call has returned
Returned == impl # "none" /\ error = "none"

\* the report has both coordinates
Usable(r) == Get(r, "latitude") # None /\ Get(r, "longitude") # None

\* the distance-to-home the called processor computes for a usable report
DistanceOf(r) ==
    IF impl = "data"
    THEN geodesic_miles(r["latitude"], r["longitude"])
    ELSE haversine_distance(r["latitude"], r["longitude"])

\* the distance-to-home a returned record carries
RecordDistance(rec) ==
    IF impl = "data" THEN rec["distance_to_home"] ELSE rec["distance"]

\* the non-empty aircraft identifiers of the input
Identifiers ==
    {Get(given[i], "icao24") : i \in 1..Len(given)} \ {None, ""}

\* the positions in the input of the reports of an aircraft
IndexesOf(id) == {i \in 1..Len(given) : Get(given[i], "icao24") = id}

\* those of them that have both coordinates and lie within the radius
InRadiusOf(id) ==
    {i \in IndexesOf(id) :
        Usable(given[i]) /\ DistanceOf(given[i]) <= radius_miles}

\* the positions in the result of the records of an aircraft
RecordsOf(id) == {k \in 1..Len(result) : result[k]["icao24"] = id}

\* the in-radius reports of an aircraft that are closest to home
ClosestOf(id) ==
    {i \in InRadiusOf(id) :
        \A j \in InRadiusOf(id) : DistanceOf(given[i]) <= DistanceOf(given[j])}

\* the record carries the fields of this report
BuiltFrom(rec, r) ==
    /\ rec["icao24"] = Get(r, "icao24")
    /\ rec["callsign"] = Get(r, "callsign")
    /\ rec["latitude"] = Get(r, "latitude")
    /\ rec["longitude"] = Get(r, "longitude")
    /\ rec["timestamp"] = Get(r, "timestamp")

---------------------------------------------------------------------------
(* The claims *)

\* C1: every record process_flights returns has a distance-to-home that is
\* at most the configured radius, whatever the reports and the radius.
C1_WithinRadius ==
    Returned =>
        \A k \in 1..Len(result) : RecordDistance(result[k]) <= radius_miles

\* C1 happens: a record is returned for an aircraft that also has a report
\* outside the radius
C1_Witness ==
    /\ Returned
    /\ \E k \in 1..Len(result) :
          InRadiusOf(result[k]["icao24"]) # IndexesOf(result[k]["icao24"])

\* C2: an aircraft with a usable report within the radius gets exactly one
\* record, whose distance is the minimum over its in-radius reports; an
\* aircraft without one gets no record.
C2_OneRecordAtMinimum ==
    Returned =>
        \A id \in Identifiers :
            IF InRadiusOf(id) # {}
            THEN /\ Cardinality(RecordsOf(id)) = 1
                 /\ \A k \in RecordsOf(id) :
                       RecordDistance(result[k]) =
                           Min({DistanceOf(given[i]) : i \in InRadiusOf(id)})
            ELSE RecordsOf(id) = {}

\* C2 happens: one aircraft has in-radius reports at two distances, the
\* closer one later in the input, and another aircraft has none in radius
C2_Witness ==
    /\ Returned
    /\ \E id \in Identifiers :
          \E i, j \in InRadiusOf(id) :
              i < j /\ DistanceOf(given[j]) < DistanceOf(given[i])
    /\ \E id \in Identifiers : InRadiusOf(id) = {}

\* C3: the returned sequence is sorted ascending by distance-to-home.
C3_SortedByDistance ==
    Returned =>
        \A k \in 1..(Len(result) - 1) :
            RecordDistance(result[k]) <= RecordDistance(result[k + 1])

\* C4, as claimed: records with equal distance-to-home appear in the order
\* in which their aircraft identifiers first occur in the input.
C4_TiesInInputOrder ==
    Returned =>
        \A j, k \in 1..Len(result) :
            (j < k /\ RecordDistance(result[j]) = RecordDistance(result[k]))
                => Min(IndexesOf(result[j]["icao24"]))
                       < Min(IndexesOf(result[k]["icao24"]))

\* the first report of an aircraft that the grouping step of the called
\* processor sees: data.py groups what filter_by_radius left
FirstGrouped(id) ==
    IF impl = "data" THEN Min(InRadiusOf(id)) ELSE Min(IndexesOf(id))

\* C4, amended: records with equal distance-to-home appear in the order in
\* which their identifiers first occur among the reports that are grouped:
\* all reports with an identifier in process_data.py, the usable in-radius
\* reports in data.py.
C4_TiesInGroupingOrder ==
    Returned =>
        \A j, k \in 1..Len(result) :
            (j < k /\ RecordDistance(result[j]) = RecordDistance(result[k]))
                => FirstGrouped(result[j]["icao24"])
                       < FirstGrouped(result[k]["icao24"])

\* C4 happens: data.py returns two records with equal distance, and the
\* aircraft of the later one occurs first in the input, outside the radius
C4_Witness ==
    /\ Returned
    /\ impl = "data"
    /\ \E j, k \in 1..Len(result) :
          /\ j < k
          /\ RecordDistance(result[j]) = RecordDistance(result[k])
          /\ Min(IndexesOf(result[k]["icao24"]))
                 < Min(IndexesOf(result[j]["icao24"]))

\* C5, as claimed: when several in-radius reports of an aircraft share the
\* minimum distance, its record is built from the first of them in the
\* input's order.
C5_FirstInInputWins ==
    Returned =>
        \A k \in 1..Len(result) :
            BuiltFrom(result[k], given[Min(ClosestOf(result[k]["icao24"]))])

\* the closest report that wins: data.py sorts the group by timestamp first
WinnerOf(id) ==
    IF impl = "data"
    THEN CHOOSE i \in ClosestOf(id) :
             \A j \in ClosestOf(id) :
                 \/ given[i]["timestamp"] < given[j]["timestamp"]
                 \/ given[i]["timestamp"] = given[j]["timestamp"] /\ i <= j
    ELSE Min(ClosestOf(id))

\* C5, amended: among the in-radius reports of an aircraft that share the
\* minimum distance, process_data.py builds the record from the first in the
\* input's order, and data.py from the one with the smallest timestamp, the
\* first in the input's order among those with that timestamp.
C5_FirstScannedWins ==
    Returned =>
        \A k \in 1..Len(result) :
            BuiltFrom(result[k], given[WinnerOf(result[k]["icao24"])])

\* C5 happens: two closest reports of an aircraft differ, and with both
\* processors: in data.py the later one in the input has the repeated timestamp
C5_Witness ==
    /\ Returned
    /\ \E id \in Identifiers :
          \E i, j \in ClosestOf(id) :
              /\ i < j
              /\ given[i] # given[j]
              /\ impl = "data" => given[j]["timestamp"] < given[i]["timestamp"]

Identified(fs) == SelectSeq(fs, LAMBDA f : Truthy(Get(f, "icao24")))

\* C8: reports whose identifier is missing or empty are dropped silently:
\* the call raises nothing, no record has a missing or empty identifier, and
\* the result is the result for the input without those reports.
C8_UnidentifiedDropped ==
    impl # "none" =>
        /\ error = "none"
        /\ \A k \in 1..Len(result) : Truthy(Get(result[k], "icao24"))
        /\ result = IF impl = "data"
                    THEN data_process_flights(Identified(given),
                                              radius_miles).closest_approaches
                    ELSE process_flights(Identified(given), radius_miles)

\* C9: a report without latitude or longitude is never the closest approach
\* and contributes no distance: every record has both coordinates and the
\* distance of a usable report of its aircraft at that position, and an
\* aircraft none of whose reports is usable has no record.
C9_UnusableNeverSelected ==
    impl # "none" =>
        /\ \A k \in 1..Len(result) :
              /\ result[k]["latitude"] # None
              /\ result[k]["longitude"] # None
              /\ \E i \in 1..Len(given) :
                    /\ Usable(given[i])
                    /\ Get(given[i], "icao24") = result[k]["icao24"]
                    /\ given[i]["latitude"] = result[k]["latitude"]
                    /\ given[i]["longitude"] = result[k]["longitude"]
                    /\ RecordDistance(result[k]) = DistanceOf(given[i])
        /\ \A i \in 1..Len(given) :
              LET id == Get(given[i], "icao24")
              IN  (\A j \in IndexesOf(id) : ~Usable(given[j]))
                      => \A k \in 1..Len(result) : Get(result[k], "icao24") # id

\* C9 happens: the call returned a record while one aircraft's only report
\* has latitude None, and another report of the returned aircraft lacks a
\* coordinate
C9_Witness ==
    /\ Returned
    /\ \E i \in 1..Len(given) :
          /\ Get(given[i], "latitude") = None
          /\ Truthy(Get(given[i], "icao24"))
          /\ IndexesOf(Get(given[i], "icao24")) = {i}
    /\ \E k \in 1..Len(result) :
          \E j \in IndexesOf(result[k]["icao24"]) : ~Usable(given[j])

\* C10: process_flights returns the empty sequence and raises nothing when
\* the input is empty and when no report of the input is within the radius.
C10_EmptyResult ==
    (/\ impl # "none"
     /\ \A i \in 1..Len(given) :
           ~(Usable(given[i]) /\ DistanceOf(given[i]) <= radius_miles))
        => result = <<>> /\ error = "none"

\* C10 happens: the call was made on reports of two aircraft, none of them
\* within the radius, one of them without a latitude
C10_Witness ==
    /\ impl # "none"
    /\ Cardinality(Identifiers) = 2
    /\ \E i \in 1..Len(given) : ~Usable(given[i])
    /\ \E i \in 1..Len(given) : Usable(given[i])
    /\ \A i \in 1..Len(given) :
          ~(Usable(given[i]) /\ DistanceOf(given[i]) <= radius_miles)
    /\ result = <<>>

\* get_statistics has returned
StatsReturned == stats # NoneDict /\ error = "none"

\* the distances of the approaches handed to get_statistics
DistancesOf(approaches) ==
    {approaches[k]["distance"] : k \in 1..Len(approaches)}

\* the positions of the approaches that have an altitude
WithAltitude(approaches) ==
    {k \in 1..Len(approaches) : approaches[k]["altitude"] # None}

\* the total of f over the positions 1..n, from the last one down
RECURSIVE Total(_, _)
Total(f, n) == IF n = 0 THEN 0 ELSE f[n] + Total(f, n - 1)

\* a wrapped fraction is the quotient of total by count
IsQuotient(wrapped, total, count) ==
    /\ Len(wrapped) = 1
    /\ wrapped[1]["den"] > 0
    /\ wrapped[1]["num"] * count = total * wrapped[1]["den"]

\* C11: get_statistics of the empty list returns a count of 0 and None for
\* the six aggregates, and raises nothing.
C11_EmptyStatistics ==
    (stats # NoneDict \/ error # "none") /\ result = <<>>
        => /\ error = "none"
           /\ stats["total_aircraft"] = 0
           /\ \A field \in {"closest_distance", "furthest_distance",
                            "average_distance", "min_altitude",
                            "max_altitude", "average_altitude"} :
                 stats[field] = NoneNumber
           /\ DOMAIN stats = {"total_aircraft", "closest_distance",
                              "furthest_distance", "average_distance",
                              "min_altitude", "max_altitude",
                              "average_altitude"}

\* C11 happens: get_statistics was called on the empty list
C11_Witness ==
    stats # NoneDict /\ result = <<>> /\ impl = "none"

\* C12: for a non-empty list, the count is the length and the closest, the
\* furthest and the average distance are the minimum, the maximum and the
\* mean of the distance of every record.
C12_DistanceStatistics ==
    StatsReturned /\ result # <<>>
        => /\ stats["total_aircraft"] = Len(result)
           /\ stats["closest_distance"] = <<Min(DistancesOf(result))>>
           /\ stats["furthest_distance"] = <<Max(DistancesOf(result))>>
           /\ IsQuotient(stats["average_distance"],
                         Total([k \in 1..Len(result) |-> result[k]["distance"]],
                               Len(result)),
                         Len(result))

\* C12 happens: three approaches at two distances, the furthest without an
\* altitude
C12_Witness ==
    /\ StatsReturned
    /\ Len(result) = 3
    /\ Cardinality(DistancesOf(result)) = 2
    /\ \E k \in 1..Len(result) :
          /\ result[k]["distance"] = Max(DistancesOf(result))
          /\ result[k]["altitude"] = None

\* C13: the altitude aggregates are the minimum, the maximum and the mean
\* over the records that have an altitude (in feet); when no record of a
\* non-empty list has one, they are None while the count is positive and the
\* distance aggregates are present.
C13_AltitudeStatistics ==
    StatsReturned /\ result # <<>>
        => LET with == WithAltitude(result)
               altitude_feet == [k \in 1..Len(result) |->
                                    IF k \in with
                                    THEN Number(result[k]["altitude"]) * 328084
                                    ELSE 0]
           IN  IF with = {}
               THEN /\ stats["min_altitude"] = NoneNumber
                    /\ stats["max_altitude"] = NoneNumber
                    /\ stats["average_altitude"] = NoneNumber
                    /\ stats["total_aircraft"] > 0
                    /\ stats["closest_distance"] # NoneNumber
                    /\ stats["furthest_distance"] # NoneNumber
                    /\ stats["average_distance"] # NoneNumber
               ELSE /\ stats["min_altitude"]
                           = <<Min({altitude_feet[k] : k \in with})>>
                    /\ stats["max_altitude"]
                           = <<Max({altitude_feet[k] : k \in with})>>
                    /\ IsQuotient(stats["average_altitude"],
                                  Total(altitude_feet, Len(result)),
                                  Cardinality(with))

\* C13 happens: of three approaches one has no altitude and two have
\* different ones
C13_Witness ==
    /\ StatsReturned
    /\ Len(result) = 3
    /\ Cardinality(WithAltitude(result)) = 2
    /\ Cardinality({result[k]["altitude"] : k \in 1..Len(result)}) = 3

\* C14: process_flights leaves the reports it is given as they were.
C14_InputUnchanged ==
    impl # "none" => flights = given

\* what a processor that was never called before returns for an input
Fresh(input) ==
    IF impl = "data"
    THEN data_process_flights(input, radius_miles).closest_approaches
    ELSE process_flights(input, radius_miles)

\* C15: the processor holds no state across calls: a later call returns what
\* a first call returns for its input, calls on the same input return the
\* same result, whatever was called before.
C15_Stateless ==
    /\ \A k \in 1..Len(repeated) :
          /\ repeated[k]["error"] = "none"
          /\ repeated[k]["result"] = Fresh(repeated[k]["input"])
    /\ \A j, k \in 1..Len(repeated) :
          repeated[j]["input"] = repeated[k]["input"]
              => repeated[j]["result"] = repeated[k]["result"]
    /\ (repeated # <<>> /\ repeated[Len(repeated)]["input"] = given)
          => result = Fresh(given)

\* C15 happens: data.py was called, again on the same list, and once more
\* after a report within the radius was appended, with a non-empty result
\* each time
C15_Witness ==
    /\ impl = "data"
    /\ Len(repeated) = 2
    /\ repeated[1]["result"] # <<>>
    /\ repeated[2]["input"] # repeated[1]["input"]
    /\ Len(repeated[2]["result"]) > Len(repeated[1]["result"])

\* the inputs that hold the reports of this one, interleave the aircraft
\* differently and keep the order among the reports of each aircraft
Interleavings(input) ==
    {[k \in 1..Len(input) |-> input[p[k]]] :
        p \in {q \in Permutations(1..Len(input)) :
                 \A a, b \in 1..Len(input) :
                     (a < b /\ Get(input[q[a]], "icao24") = Get(input[q[b]], "icao24"))
                         => q[a] < q[b]}}

\* C16: the order of the reports across aircraft is irrelevant: every other
\* interleaving of the input gives the same set of records, and the same
\* sequence when no two records have equal distance.
C16_InterleavingIrrelevant ==
    Returned =>
        \A other \in Interleavings(given) :
            LET out == Fresh(other)
            IN  /\ {out[k] : k \in 1..Len(out)}
                       = {result[k] : k \in 1..Len(result)}
                /\ (\A j, k \in 1..Len(result) :
                       j # k => RecordDistance(result[j]) # RecordDistance(result[k]))
                       => out = result

\* the positions of the reports that lack the latitude or the longitude
\* field, and of those that lack any field of a well-formed report
LackCoordinate(input) ==
    {i \in 1..Len(input) :
        {"latitude", "longitude"} \ DOMAIN input[i] # {}}

LackField(input) ==
    {i \in 1..Len(input) :
        {"latitude", "longitude", "callsign"} \ DOMAIN input[i] # {}}

\* the input without the report at position i
Without(input, i) ==
    SubSeq(input, 1, i - 1) \o SubSeq(input, i + 1, Len(input))

\* C17: a single malformed report never makes process_flights raise, and
\* when it lacks a coordinate the records are those of the input without it.
C17_MalformedSkipped ==
    (impl # "none" /\ Cardinality(LackField(given)) = 1)
        => /\ error = "none"
           /\ \A i \in LackCoordinate(given) :
                 {result[k] : k \in 1..Len(result)}
                     = LET out == Fresh(Without(given, i))
                       IN  {out[k] : k \in 1..Len(out)}

\* the input is not a list of dicts
StructurallyInvalid ==
    container # "list" \/ \E i \in 1..Len(given) : ~IsDict(given[i])

\* C18: a call of process_flights on an input that is not a sequence of
\* record-like objects ends in an error; it never returns a result as if the
\* input had been valid.
C18_InvalidInputRejected ==
    (impl # "none" /\ StructurallyInvalid) => error # "none"

\* the float next above x
float_above(x) ==
    rounded([exp |-> x.exp, sig |-> wide_times(<<0>> \o x.sig, 1, 1)],
            FALSE, FALSE)

\* C19: the result of miles_to_degrees is the larger of miles/69 and
\* miles/(69*cos(latitude)), so it is at least miles/69; at latitude 0 the
\* two are equal and the result times 69 is the original miles.
C19_DegreesRoundTrip ==
    radius_degrees # NoneNumber
        => LET miles == miles_float(radius_miles)
               degrees == radius_degrees[1]
           IN  /\ degrees \in {lat_degrees(miles), lon_degrees(miles, home_lat)}
               /\ ~float_less(degrees, lon_degrees(miles, home_lat))
               /\ ~float_less(degrees, lat_degrees(miles))
               /\ home_lat = "0"
                     => /\ lat_degrees(miles) = lon_degrees(miles, home_lat)
                        /\ float_times(degrees, 69) = miles

\* C19, amended: as above, but the result times 69 is the original miles
\* only up to the rounding of the division and the multiplication: it is
\* miles itself or one of the two floats next to it.
C19_DegreesRoundTripRounded ==
    radius_degrees # NoneNumber
        => LET miles == miles_float(radius_miles)
               degrees == radius_degrees[1]
               back == float_times(degrees, 69)
           IN  /\ degrees \in {lat_degrees(miles), lon_degrees(miles, home_lat)}
               /\ ~float_less(degrees, lon_degrees(miles, home_lat))
               /\ ~float_less(degrees, lat_degrees(miles))
               /\ home_lat = "0"
                     => /\ lat_degrees(miles) = lon_degrees(miles, home_lat)
                        /\ \/ back = miles
                           \/ float_above(back) = miles
                           \/ float_above(miles) = back

\* a radius has been converted at latitude 0, and 69 times the result is
\* not the radius
C19_Witness ==
    /\ radius_degrees # NoneNumber
    /\ home_lat = "0"
    /\ float_times(radius_degrees[1], 69) # miles_float(radius_miles)

\* the record carries the altitude, heading and velocity of this report
KinematicsFrom(rec, r) ==
    /\ Get(rec, "altitude") = Get(r, "altitude")
    /\ Get(rec, "heading") = Get(r, "heading")
    /\ Get(rec, "velocity") = Get(r, "velocity")

\* C20: every record process_flights returns is built from one single input
\* report of its aircraft, a closest one within the radius: identifier,
\* callsign, latitude, longitude, altitude, heading, velocity and timestamp
\* are those of that report, and the distance is that of its position.
C20_BuiltFromOneReport ==
    Returned =>
        \A k \in 1..Len(result) :
            \E i \in ClosestOf(result[k]["icao24"]) :
                /\ BuiltFrom(result[k], given[i])
                /\ KinematicsFrom(result[k], given[i])
                /\ RecordDistance(result[k]) = DistanceOf(given[i])

\* C20 happens: a record is returned for an aircraft whose first report in
\* the input lies within the radius, is not a closest one, and differs from
\* every closest one in callsign, altitude, heading, velocity and timestamp
C20_Witness ==
    /\ Returned
    /\ \E k \in 1..Len(result) :
          LET id == result[k]["icao24"]
              first == given[Min(IndexesOf(id))]
          IN  /\ Min(IndexesOf(id)) \in InRadiusOf(id) \ ClosestOf(id)
              /\ \A i \in ClosestOf(id) :
                    /\ given[i]["callsign"] # first["callsign"]
                    /\ given[i]["altitude"] # first["altitude"]
                    /\ given[i]["heading"] # first["heading"]
                    /\ given[i]["velocity"] # first["velocity"]
                    /\ given[i]["timestamp"] # first["timestamp"]

\* the non-empty identifiers that have a report with both coordinates within
\* the radius
InRadiusIdentifiers == {id \in Identifiers : InRadiusOf(id) # {}}

\* C21: get_statistics applied to what process_flights returned completes
\* without error, and its total_aircraft is the number of distinct non-empty
\* identifiers that have a report with both coordinates within the radius.
C21_StatisticsOfResult ==
    [][ComputeStatistics
           => /\ error' = "none"
              /\ stats'["total_aircraft"] = Cardinality(InRadiusIdentifiers)]_vars

\* process_flights returned, and a later stage raised: the statistics (which
\* leave a result and no statistics behind), the printing or the rendering
LaterStageRaised ==
    /\ impl # "none"
    /\ error # "none"
    /\ stats # NoneDict \/ result # <<>>

\* none of the records has an altitude, or there is no record
NoAltitudeData ==
    \A k \in 1..Len(result) : Get(result[k], "altitude") = None

\* C22: when process_flights returns no records, or records none of which
\* has an altitude, no later stage raises: not the statistics, not the
\* printing of the statistics in main.py and run_test_data.py, not
\* create_wallpaper.
C22_EmptyResultNoError == NoAltitudeData => ~LaterStageRaised

\* C23: in the list a fetcher builds, of any two reports with the same
\* aircraft identifier the earlier in the list has a timestamp less than or
\* equal to the later one's, whatever the requests for the chunks gave.
C23_ChronologicalPerAircraft ==
    fetcher # "none"
        => \A i, j \in 1..Len(flights) :
               (i < j /\ flights[i]["icao24"] = flights[j]["icao24"])
                   => flights[i]["timestamp"] <= flights[j]["timestamp"]

\* the record without its origin and destination
Unrouted(rec) ==
    [key \in DOMAIN rec \ {"origin", "destination"} |-> rec[key]]

\* C24: enrich_with_routes returns exactly the approaches process_flights
\* returned, each once and in the same order, whatever each lookup gave, and
\* with no field changed other than origin and destination.
C24_EnrichKeepsApproaches ==
    enrichment.called
        => LET approaches == Fresh(given)
           IN  /\ Len(result) = Len(approaches)
               /\ \A k \in 1..Len(result) :
                     Unrouted(result[k]) = Unrouted(approaches[k])

\* C24 happens: of two approaches, the lookup of one ended in an exception
\* and the lookup of the other found a route
C24_Witness ==
    /\ enrichment.called
    /\ \E j, k \in 1..Len(enrichment.lookups) :
          /\ enrichment.lookups[j].kind = "exception"
          /\ enrichment.lookups[k].kind = "route"
          /\ "origin" \in DOMAIN result[k]

\* C25: _format_label returns a label without raising for every record that
\* process_flights returned, also after enrich_with_routes has processed it:
\* with a callsign of None, and with a route of which the lookup found only
\* the origin or only the destination.
C25_LabelNeverRaises ==
    impl # "none" /\ error = "none"
        => \A k \in 1..Len(result) : ~format_label_raises(result[k])

\* the lookups that found one end of the route only
HalfRoutes ==
    {k \in 1..Len(enrichment.lookups) :
        /\ enrichment.lookups[k].kind = "route"
        /\ (enrichment.lookups[k].origin = None)
               # (enrichment.lookups[k].destination = None)}

\* C25 apart from the half routes: the label of a record is made without
\* raising as long as no lookup found one end of the route only
C25_LabelOfWholeRoutes ==
    (impl # "none" /\ error = "none" /\ HalfRoutes = {})
        => \A k \in 1..Len(result) : ~format_label_raises(result[k])

=============================================================================
